---- MODULE Spec2Model ----
(***************************************************************************)
(* ndsparse: the CSL (Compressed Sparse Line) store.                       *)
(*                                                                         *)
(* A store is the record [data, dims, indcs, offs] of csl.rs.  Rust slices *)
(* are 0-based and half-open; the sequences here are 1-based, so the Rust  *)
(* range a..b of a slice s is SubSeq(s, a + 1, b).  An Option<T> is the    *)
(* sequence << >> (None) or <<x>> (Some(x)).                               *)
(*                                                                         *)
(* csl.rs checks its arguments with assert!: a failed assertion is         *)
(* reported here under the name of the CslError variant that csl_error.rs  *)
(* documents for that condition.  A panic that is no validation (a slice   *)
(* index out of range) is the outcome "Abort".                             *)
(***************************************************************************)
EXTENDS Integers, Sequences, FiniteSets, TLC

VARIABLES pc, input, csl, op, arg, result, prev, iter, yielded, pool, log, builder

vars == <<pc, input, csl, op, arg, result, prev, iter, yielded, pool, log, builder>>

(***************************************************************************)
(* Bounds of the model.                                                    *)
(***************************************************************************)
\* number of axes of a shape (DA::CAPACITY), 1..MaxD
MaxD == 3
\* largest axis size
MaxDim == 2
\* largest number of stored entries handed to new
MaxNnz == 2
\* data values are 1..MaxVal
MaxVal == 2
\* largest first offset handed to new
MaxFirstOff == 1
\* longest offsets array handed to new by the callers of Spec
MaxOffsLen == 5
\* usize is modelled as a word of WordBits bits
WordBits == 8
\* number of iterators that split_at makes of one
MaxPool == 3
\* number of views that the iterators of a store yield
MaxSteps == 3
\* longest sequence of pairs handed to push_line
MaxLine == 2
\* number of lines pushed through one constructor
MaxLines == 2

UsizeMax == 2 ^ WordBits - 1

(***************************************************************************)
(* Arithmetic and slices.                                                  *)
(***************************************************************************)
Min2(a, b) == IF a <= b THEN a ELSE b

saturating_mul(a, b) == Min2(a * b, UsizeMax)

saturating_add(a, b) == Min2(a + b, UsizeMax)

saturating_sub(a, b) == IF a >= b THEN a - b ELSE 0

\* Option
None == << >>

NoView == [data |-> << >>, dims |-> << >>, indcs |-> << >>, offs |-> << >>]

Some(x) == <<x>>

\* slice.get(a..b)
get_range(s, a, b) == IF a <= b /\ b <= Len(s) THEN Some(SubSeq(s, a + 1, b)) ELSE None

\* slice.get(i)
get(s, i) == IF i < Len(s) THEN Some(s[i + 1]) ELSE None

RECURSIVE product(_)
product(s) == IF s = << >> THEN 1 ELSE Head(s) * product(Tail(s))

RECURSIVE saturating_product(_)
saturating_product(s) ==
  IF s = << >> THEN 1 ELSE saturating_mul(Head(s), saturating_product(Tail(s)))

\* iter().filter(|dim| dim != &0)
RECURSIVE non_zero(_)
non_zero(s) ==
  IF s = << >> THEN << >>
  ELSE IF Head(s) # 0 THEN <<Head(s)>> \o non_zero(Tail(s)) ELSE non_zero(Tail(s))

\* ArrayWrapper::default(): every axis 0
is_default(dims) == \A i \in 1..Len(dims) : dims[i] = 0

\* iter().rev().skip(1): the sequence without its last element
init_seq(s) == IF s = << >> THEN << >> ELSE SubSeq(s, 1, Len(s) - 1)

\* iter().skip(n)
skip(s, n) == IF n >= Len(s) THEN << >> ELSE SubSeq(s, n + 1, Len(s))

(***************************************************************************)
(* utils.rs                                                                *)
(***************************************************************************)
are_in_ascending_order(s) == \A i \in 1..(Len(s) - 1) : s[i] <= s[i + 1]

\* the bound taken inclusively: x <= upper_bound in place of x < upper_bound
are_in_upper_bound_inclusive(s, upper_bound) == \A i \in 1..Len(s) : s[i] <= upper_bound

are_in_upper_bound(s, upper_bound) == \A i \in 1..Len(s) : s[i] < upper_bound

has_duplicates(s) == \E a \in 1..Len(s) : \E b \in (a + 1)..Len(s) : s[a] = s[b]

max_nnz(dims) ==
  IF is_default(dims) THEN 0
  ELSE IF Len(dims) = 1 THEN dims[1]
  ELSE saturating_product(non_zero(dims))

(***************************************************************************)
(* csl_utils.rs                                                            *)
(***************************************************************************)
\* the product of the sizes in a word that wraps
RECURSIVE wrapping_product(_)
wrapping_product(s) ==
  IF s = << >> THEN 1 ELSE (Head(s) * wrapping_product(Tail(s))) % (UsizeMax + 1)

\* correct_offs_len with wrapping_mul in place of saturating_mul
correct_offs_len_wrapping(dims) ==
  IF Len(dims) = 0 THEN Some(1)
  ELSE IF Len(dims) = 1 THEN Some(2)
  ELSE IF is_default(dims) THEN Some(1)
  ELSE LET offs_len == wrapping_product(non_zero(init_seq(dims)))
       IN  IF offs_len + 1 > UsizeMax THEN None ELSE Some(offs_len + 1)

\* Some(len), or None for Err(OffsLengthOverflow)
correct_offs_len(dims) ==
  IF Len(dims) = 0 THEN Some(1)
  ELSE IF Len(dims) = 1 THEN Some(2)
  ELSE IF is_default(dims) THEN Some(1)
  ELSE LET offs_len == saturating_product(non_zero(init_seq(dims)))
       IN  IF offs_len + 1 > UsizeMax THEN None ELSE Some(offs_len + 1)

\* the lines counted by the coordinates before the second-to-last one, from
\* the 0-based coordinate idx on
RECURSIVE outer_lines(_, _, _)
outer_lines(dims, indcs, idx) ==
  IF idx >= saturating_sub(Len(indcs), 2) THEN 0
  ELSE saturating_add(saturating_mul(product(init_seq(skip(dims, idx + 1))), indcs[idx + 1]),
                      outer_lines(dims, indcs, idx + 1))

\* Some([offs_indcs, offs_values]), each range a pair <<start, end>>
line_offs(dims, indcs, offs) ==
  IF Len(dims) = 0 THEN None
  ELSE IF Len(dims) = 1 THEN
    IF Len(offs) < 2 THEN None
    ELSE Some([offs_indcs |-> <<0, 2>>, offs_values |-> <<0, saturating_sub(offs[2], offs[1])>>])
  ELSE LET lines == saturating_add(outer_lines(dims, indcs, 0), indcs[Len(dims) - 1])
       IN  IF lines > saturating_sub(UsizeMax, 2) THEN None
           ELSE IF Len(offs) = 0 \/ get(offs, lines) = None \/ get(offs, lines + 1) = None
             THEN None
           ELSE Some([offs_indcs |-> <<lines, saturating_add(lines, 2)>>,
                      offs_values |-> <<saturating_sub(offs[lines + 1], offs[1]),
                                        saturating_sub(offs[lines + 2], offs[1])>>])

\* [T]::binary_search of core, as data_idx and sub_dim call it: the halving loop
RECURSIVE binary_search_base(_, _, _, _)
binary_search_base(s, x, base, size) ==
  IF size > 1
    THEN LET half == size \div 2
             mid == base + half
         IN  binary_search_base(s, x, IF s[mid + 1] > x THEN base ELSE mid, size - half)
    ELSE base

\* [ok |-> TRUE, idx] for Ok(idx), [ok |-> FALSE, idx] for Err(idx)
binary_search(s, x) ==
  IF Len(s) = 0 THEN [ok |-> FALSE, idx |-> 0]
  ELSE LET base == binary_search_base(s, x, 0, Len(s))
       IN  IF s[base + 1] = x THEN [ok |-> TRUE, idx |-> base]
           ELSE [ok |-> FALSE, idx |-> base + (IF s[base + 1] < x THEN 1 ELSE 0)]

data_idx(c, indcs) ==
  IF Len(indcs) = 0 THEN None
  ELSE LET lo == line_offs(c.dims, indcs, c.offs)
       IN  IF lo = None THEN None
           ELSE LET start == lo[1].offs_values[1]
                    line == get_range(c.indcs, start, lo[1].offs_values[2])
                IN  IF line = None THEN None
                    ELSE IF binary_search(line[1], indcs[Len(indcs)]).ok
                      THEN Some(start + binary_search(line[1], indcs[Len(indcs)]).idx)
                    ELSE None

outermost_stride(dims) == product(init_seq(skip(dims, 1)))

\* [offs_indcs, offs_values] of the outermost positions start..end
outermost_offs(dims, offs, start, end) ==
  LET start_off_idx == saturating_mul(outermost_stride(dims), start)
      end_off_idx == saturating_mul(outermost_stride(dims), end)
      off_start == IF get(offs, start_off_idx) = None THEN 0 ELSE offs[start_off_idx + 1]
      off_end == IF get(offs, end_off_idx) = None THEN 0 ELSE offs[end_off_idx + 1]
  IN  [offs_indcs |-> <<start_off_idx, saturating_add(end_off_idx, 1)>>,
       offs_values |-> <<off_start, off_end>>]

\* a CslRef
View(data, dims, indcs, offs) == [data |-> data, dims |-> dims, indcs |-> indcs, offs |-> offs]

\* sub_dim with TODA::CAPACITY = 1: the first line, cut to the coordinates start..end
sub_dim_1(c, start, end) ==
  IF get(c.offs, 1) = None THEN None
  ELSE LET indcs == get_range(c.indcs, 0, c.offs[2] - c.offs[1])
       IN  IF indcs = None THEN None
           ELSE LET first == binary_search(indcs[1], start).idx
                    tail == get_range(indcs[1], first, Len(indcs[1]))
                IN  IF tail = None THEN None
                    ELSE LET last == binary_search(tail[1], end).idx
                             data_tail == get_range(c.data, first, Len(c.data))
                             indcs_tail == get_range(c.indcs, first, Len(c.indcs))
                         IN  IF data_tail = None \/ indcs_tail = None THEN None
                             ELSE IF get_range(data_tail[1], 0, last) = None
                                     \/ get_range(indcs_tail[1], 0, last) = None
                                     \/ get_range(c.offs, 0, 2) = None
                               THEN None
                             ELSE Some(View(get_range(data_tail[1], 0, last)[1],
                                            <<c.dims[Len(c.dims)]>>,
                                            get_range(indcs_tail[1], 0, last)[1],
                                            get_range(c.offs, 0, 2)[1]))

\* sub_dim with TODA::CAPACITY = n > 1
sub_dim_n(c, n, start, end) ==
  LET dims == [skip(c.dims, Len(c.dims) - n) EXCEPT ![1] = end - start]
      oo == outermost_offs(dims, c.offs, start, end)
      data == get_range(c.data, oo.offs_values[1], oo.offs_values[2])
      indcs == get_range(c.indcs, oo.offs_values[1], oo.offs_values[2])
      offs == get_range(c.offs, oo.offs_indcs[1], oo.offs_indcs[2])
  IN  IF data = None \/ indcs = None \/ offs = None THEN None
      ELSE Some(View(data[1], dims, indcs[1], offs[1]))

\* sub_dim::<TODA>(csl, start..end) with TODA::CAPACITY = n
sub_dim(c, n, start, end) ==
  IF start > end \/ n > Len(c.dims) THEN None
  ELSE IF n = 0 THEN None
  ELSE IF n = 1 THEN sub_dim_1(c, start, end)
  ELSE sub_dim_n(c, n, start, end)

\* line(csl, indcs): the view of one axis of the line of indcs
line(c, indcs) ==
  IF Len(c.dims) = 0 THEN None
  ELSE LET lo == line_offs(c.dims, indcs, c.offs)
       IN  IF lo = None THEN None
           ELSE LET data == get_range(c.data, lo[1].offs_values[1], lo[1].offs_values[2])
                    in_line == get_range(c.indcs, lo[1].offs_values[1], lo[1].offs_values[2])
                    offs == get_range(c.offs, lo[1].offs_indcs[1], lo[1].offs_indcs[2])
                IN  IF data = None \/ in_line = None \/ offs = None THEN None
                    ELSE Some(View(data[1], <<c.dims[Len(c.dims)]>>, in_line[1], offs[1]))

(***************************************************************************)
(* CsIterRef, csl_iter.rs                                                  *)
(***************************************************************************)
\* CsIterRef::new past its assertion
iter_new(c) == [curr_idx |-> 0, max_idx |-> c.dims[1], dims |-> [c.dims EXCEPT ![1] = 1]]

\* Iterator::next: the outcomes a build can produce and the view yielded.  The
\* data slice is made by from_raw_parts: outside the allocation that is
\* undefined behaviour ("UB"), and the checked indexing of indcs right after
\* it panics ("Abort").
iter_next(it, c) ==
  LET oo == outermost_offs(it.dims, c.offs, it.curr_idx, it.curr_idx + 1)
      vs == oo.offs_values
  IN  IF it.curr_idx >= it.max_idx THEN [tags |-> {"None"}, item |-> NoView]
      ELSE IF vs[2] < vs[1] \/ vs[2] > Len(c.data) THEN [tags |-> {"Abort", "UB"}, item |-> NoView]
      ELSE IF get_range(c.indcs, vs[1], vs[2]) = None
              \/ get_range(c.offs, oo.offs_indcs[1], oo.offs_indcs[2]) = None
        THEN [tags |-> {"Abort"}, item |-> NoView]
      ELSE [tags |-> {"Some"},
            item |-> View(SubSeq(c.data, vs[1] + 1, vs[2]), it.dims,
                          SubSeq(c.indcs, vs[1] + 1, vs[2]),
                          SubSeq(c.offs, oo.offs_indcs[1] + 1, oo.offs_indcs[2]))]

\* Iterator::nth(i): the view that the call of next after i calls yields, or
\* the outcomes of the first call that yields none
RECURSIVE IterNth(_, _, _)
IterNth(it, c, i) ==
  LET r == iter_next(it, c)
  IN  IF r.tags # {"Some"} \/ i = 0 THEN r
      ELSE IterNth([it EXCEPT !.curr_idx = it.curr_idx + 1], c, i - 1)

\* split_at whose tail starts one position after the cut point
iter_split_at_tail_off_by_one(it, idx) ==
  LET cut_point == it.curr_idx + idx
  IN  <<[it EXCEPT !.max_idx = cut_point], [it EXCEPT !.curr_idx = cut_point + 1]>>

\* split_at: both halves keep the whole store and share the positions
\* curr_idx..cut_point and cut_point..max_idx
iter_split_at(it, idx) ==
  LET cut_point == it.curr_idx + idx
  IN  <<[it EXCEPT !.max_idx = cut_point], [it EXCEPT !.curr_idx = cut_point]>>

\* DoubleEndedIterator::next_back: the outcomes, the view yielded and the
\* outermost position it was computed for
iter_next_back(it, c) ==
  LET oo == outermost_offs(it.dims, c.offs, it.curr_idx - 1, it.curr_idx)
      vs == oo.offs_values
  IN  IF it.curr_idx = 0 THEN [tags |-> {"None"}, item |-> NoView]
      ELSE IF vs[2] < vs[1] \/ vs[2] > Len(c.data) THEN [tags |-> {"Abort", "UB"}, item |-> NoView]
      ELSE IF get_range(c.indcs, vs[1], vs[2]) = None
              \/ get_range(c.offs, oo.offs_indcs[1], oo.offs_indcs[2]) = None
        THEN [tags |-> {"Abort"}, item |-> NoView]
      ELSE [tags |-> {"Some"},
            item |-> View(SubSeq(c.data, vs[1] + 1, vs[2]), it.dims,
                          SubSeq(c.indcs, vs[1] + 1, vs[2]),
                          SubSeq(c.offs, oo.offs_indcs[1] + 1, oo.offs_indcs[2]))]

(***************************************************************************)
(* CslLineIterRef, csl_line_iter.rs.  The iterator owns what is left of    *)
(* data and indcs: the positions lo..hi of the store's containers, which   *)
(* have the same length in every store that new returns.                   *)
(***************************************************************************)
\* CslLineIterRef::new: Some(iterator), or None for Err(InvalidIterDim)
line_iter_new(c) ==
  IF Len(c.dims) = 0 THEN None
  ELSE Some([curr_idx |-> 0, max_idx |-> c.dims[1], dims |-> [c.dims EXCEPT ![1] = 1],
             lo |-> 0, hi |-> Len(c.data)])

\* the body that next and next_back share: the view of the outermost position
\* start is cut from the head of what is left.  split_at(mid) panics when mid
\* is more than what is left, and so does the subtraction that underflows (or
\* the split_at of its wrapped result); a failed offs.get returns None with
\* the head already taken
line_iter_take(it, c, start) ==
  LET oo == outermost_offs(it.dims, c.offs, start, start + 1)
      vs == oo.offs_values
      n == vs[2] - vs[1]
      rest == [it EXCEPT !.lo = it.lo + n]
  IN  IF vs[2] < vs[1] \/ n > it.hi - it.lo
        THEN [tag |-> "Abort", item |-> NoView, values |-> <<0, 0>>, it |-> it]
      ELSE IF get_range(c.offs, oo.offs_indcs[1], oo.offs_indcs[2]) = None
        THEN [tag |-> "None", item |-> NoView, values |-> <<0, 0>>, it |-> rest]
      ELSE [tag |-> "Some",
            item |-> View(SubSeq(c.data, it.lo + 1, it.lo + n), it.dims,
                          SubSeq(c.indcs, it.lo + 1, it.lo + n),
                          SubSeq(c.offs, oo.offs_indcs[1] + 1, oo.offs_indcs[2])),
            values |-> <<it.lo, it.lo + n>>,
            it |-> rest]

\* Iterator::next
line_iter_next(it, c) ==
  IF it.curr_idx >= it.max_idx
    THEN [tag |-> "None", item |-> NoView, values |-> <<0, 0>>, it |-> it]
  ELSE line_iter_take([it EXCEPT !.curr_idx = it.curr_idx + 1], c, it.curr_idx)

\* DoubleEndedIterator::next_back
line_iter_next_back(it, c) ==
  IF it.curr_idx = 0
    THEN [tag |-> "None", item |-> NoView, values |-> <<0, 0>>, it |-> it]
  ELSE line_iter_take([it EXCEPT !.curr_idx = it.curr_idx - 1], c, it.curr_idx - 1)

\* split_at: Some(<<head, tail>>), or None when it panics
line_iter_split_at(it, c, idx) ==
  LET cut_point == it.curr_idx + idx
      vs == outermost_offs(it.dims, c.offs, it.curr_idx, cut_point).offs_values
      n == vs[2] - vs[1]
  IN  IF vs[2] < vs[1] \/ n > it.hi - it.lo THEN None
      ELSE Some(<<[it EXCEPT !.max_idx = cut_point, !.hi = it.lo + n],
                  [it EXCEPT !.curr_idx = cut_point, !.lo = it.lo + n]>>)

(***************************************************************************)
(* Csl::new, csl.rs                                                        *)
(***************************************************************************)
\* the shape check without the all-zero and leading-zero cases: any zero axis
\* next to non-zero ones is refused
dims_are_valid_no_leading_zeros(dims) ==
  is_default(dims) \/ \A i \in 1..Len(dims) : dims[i] # 0

\* the first assertion: no zero axis after a non-zero one
dims_are_valid(dims) ==
  LET nz == {i \in 1..Len(dims) : dims[i] # 0}
  IN  nz = {} \/ LET idx == CHOOSE i \in nz : \A j \in nz : i <= j
                 IN  \A j \in idx..Len(dims) : dims[j] # 0

\* offs.windows(2).all(|x| does_not_have_duplicates(&indcs[x[0] - first..x[1] - first])),
\* window by window from window w on: the slicing panics when the range leaves indcs
RECURSIVE lines_scan(_, _, _)
lines_scan(indcs, offs, w) ==
  IF w >= Len(offs) THEN "Ok"
  ELSE LET a == offs[w] - offs[1]
           b == offs[w + 1] - offs[1]
       IN  IF ~(a <= b /\ b <= Len(indcs)) THEN "Abort"
           ELSE IF has_duplicates(SubSeq(indcs, a + 1, b)) THEN "DuplicatedIndices"
           ELSE lines_scan(indcs, offs, w + 1)

new_outcome(i) ==
  IF ~dims_are_valid(i.dims) THEN "InnermostDimsZero"
  ELSE IF Len(i.data) # Len(i.indcs) THEN "DiffDataIndcsLength"
  ELSE IF ~are_in_ascending_order(i.offs) THEN "InvalidOffsetsOrder"
  ELSE IF ~(Len(i.data) <= max_nnz(i.dims) /\ Len(i.indcs) <= max_nnz(i.dims))
    THEN "DataIndcsLengthGreaterThanDimsLength"
  ELSE IF Len(i.offs) > 0 /\ lines_scan(i.indcs, i.offs, 1) # "Ok"
    THEN lines_scan(i.indcs, i.offs, 1)
  ELSE IF Len(i.offs) > 0 /\ ~(i.offs[Len(i.offs)] - i.offs[1] = Len(i.data)
                               /\ i.offs[Len(i.offs)] - i.offs[1] = Len(i.indcs))
    THEN "LastOffsetDifferentNnz"
  ELSE IF Len(i.dims) > 0 /\ ~are_in_upper_bound(i.indcs, i.dims[Len(i.dims)])
    THEN "IndcsGreaterThanEqualDimLength"
  ELSE IF Len(i.dims) > 0 /\ correct_offs_len(i.dims) = None THEN "OffsLengthOverflow"
  ELSE IF Len(i.dims) > 0 /\ Len(i.offs) # correct_offs_len(i.dims)[1]
    THEN "InvalidOffsetsLength"
  ELSE "Ok"

\* Csl::value: Some(&data[idx]); indexing data past its end panics
value(c, indcs) ==
  IF data_idx(c, indcs) = None THEN [tag |-> "None", val |-> << >>]
  ELSE IF data_idx(c, indcs)[1] >= Len(c.data) THEN [tag |-> "Abort", val |-> << >>]
  ELSE [tag |-> "Some", val |-> <<c.data[data_idx(c, indcs)[1] + 1]>>]

\* Vec::truncate(len)
vec_truncate(s, len) == IF len >= Len(s) THEN s ELSE SubSeq(s, 1, len)

\* Csl::truncate
truncate(c, indcs) ==
  LET lo == line_offs(c.dims, indcs, c.offs)
  IN  IF lo = None THEN c
      ELSE LET cut_point == lo[1].offs_values[1] + 1
           IN  [data |-> vec_truncate(c.data, cut_point),
                indcs |-> vec_truncate(c.indcs, cut_point),
                offs |-> Append(vec_truncate(c.offs, lo[1].offs_indcs[1] + 1), indcs[Len(indcs)]),
                dims |-> [i \in 1..Len(c.dims) |-> IF indcs[i] = 0 THEN 0 ELSE c.dims[i]]]

\* the order of slices: a[..] < b[..]
slice_lt(a, b) ==
  \/ \E i \in 1..Min2(Len(a), Len(b)) : a[i] < b[i] /\ \A j \in 1..(i - 1) : a[j] = b[j]
  \/ Len(a) < Len(b) /\ \A j \in 1..Len(a) : a[j] = b[j]

\* slice.swap(a, b)
swap(s, a, b) == [s EXCEPT ![a + 1] = s[b + 1], ![b + 1] = s[a + 1]]

\* Csl::swap_value: the outcome and the store it leaves
swap_value(c, a, b) ==
  IF ~(slice_lt(a, c.dims) /\ slice_lt(b, c.dims)) THEN [tag |-> "Abort", csl |-> c]
  ELSE IF data_idx(c, a) # None /\ data_idx(c, b) # None
    THEN [tag |-> "true", csl |-> [c EXCEPT !.data = swap(c.data, data_idx(c, a)[1], data_idx(c, b)[1])]]
  ELSE [tag |-> "false", csl |-> c]

(***************************************************************************)
(* The arguments handed to new.                                            *)
(***************************************************************************)
Seqs(S, n) == UNION {[1..k -> S] : k \in 0..n}

DimsSet == UNION {[1..k -> 0..MaxDim] : k \in 1..MaxD}

\* non-decreasing sequences of length n over a..b
RECURSIVE AscSeqs(_, _, _)
AscSeqs(n, a, b) ==
  IF n = 0 THEN {<< >>}
  ELSE UNION {{<<x>> \o s : s \in AscSeqs(n - 1, x, b)} : x \in a..b}

Input(d, v, x, o) == [dims |-> d, data |-> v, indcs |-> x, offs |-> o]

\* arbitrary arguments: any shape, lengths that need not agree, offsets in any
\* order, of any length up to RawOffsLen and pointing past the end of indcs
RawOffsLen == MaxD

\* arguments as a caller assembles them for a shape: as many indices as values,
\* non-decreasing offsets, one per line plus one; the shape, the indices of a
\* line, their order and the last offset are free
OffsFor(d, n) ==
  IF correct_offs_len(d) = None \/ correct_offs_len(d)[1] > MaxOffsLen THEN {}
  ELSE UNION {AscSeqs(correct_offs_len(d)[1], f, f + n) : f \in 0..MaxFirstOff}

NoCsl == [data |-> << >>, dims |-> << >>, indcs |-> << >>, offs |-> << >>]

NoResult == [tag |-> "", val |-> << >>]

NoIter == [curr_idx |-> 0, max_idx |-> 0, dims |-> << >>]

\* no CslLineConstructor built yet
NoBuilder == [curr_dim_idx |-> 0, last_off |-> 0]

Start(i) ==
  /\ input = i
  /\ pc = "input"
  /\ csl = NoCsl
  /\ op = ""
  /\ arg = << >>
  /\ result = NoResult
  /\ prev = NoCsl
  /\ iter = NoIter
  /\ yielded = << >>
  /\ pool = << >>
  /\ log = << >>
  /\ builder = NoBuilder

Init ==
  \E d \in DimsSet, n \in 0..MaxNnz :
    \E v \in [1..n -> 1..MaxVal], x \in [1..n -> 0..MaxDim], o \in OffsFor(d, n) :
      Start(Input(d, v, x, o))

InitNew ==
  \E d \in DimsSet, v \in Seqs({1}, MaxNnz), x \in Seqs(0..MaxDim, MaxNnz),
     o \in Seqs(0..(MaxNnz + 1), RawOffsLen) :
    Start(Input(d, v, x, o))

\* Csl::new(dims, data, indcs, offs)
New ==
  /\ pc = "input"
  /\ op' = "new"
  /\ arg' = << >>
  /\ result' = [tag |-> new_outcome(input), val |-> << >>]
  /\ IF new_outcome(input) = "Ok"
       THEN pc' = "store" /\ csl' = input
       ELSE pc' = "failed" /\ csl' = NoCsl
  /\ UNCHANGED <<input, prev, iter, yielded, pool, log, builder>>

\* the multi-indices handed to the operations: every coordinate within its axis
\* or one past it
IdxArgs(dims) == {x \in [1..Len(dims) -> 0..MaxDim] : \A i \in 1..Len(dims) : x[i] <= dims[i]}

\* csl.value(indcs)
Value ==
  /\ pc = "store"
  /\ \E indcs \in IdxArgs(csl.dims) :
       /\ arg' = <<indcs>>
       /\ result' = value(csl, indcs)
  /\ op' = "value"
  /\ pc' = "done"
  /\ UNCHANGED <<input, csl, prev, iter, yielded, pool, log, builder>>

\* csl.truncate(indcs)
Truncate ==
  /\ pc = "store"
  /\ \E indcs \in IdxArgs(csl.dims) :
       /\ arg' = <<indcs>>
       /\ csl' = truncate(csl, indcs)
  /\ op' = "truncate"
  /\ result' = NoResult
  /\ prev' = csl
  /\ pc' = "done"
  /\ UNCHANGED <<input, iter, yielded, pool, log, builder>>

\* csl.swap_value(a, b)
SwapValue ==
  /\ pc = "store"
  /\ \E a \in IdxArgs(csl.dims), b \in IdxArgs(csl.dims) :
       /\ arg' = <<a, b>>
       /\ result' = [tag |-> swap_value(csl, a, b).tag, val |-> << >>]
       /\ csl' = swap_value(csl, a, b).csl
  /\ op' = "swap_value"
  /\ pc' = "done"
  /\ prev' = csl
  /\ UNCHANGED <<input, iter, yielded, pool, log, builder>>

\* csl.outermost_iter()
OutermostIter ==
  /\ pc = "store"
  /\ op' = "outermost_iter"
  /\ arg' = << >>
  /\ IF Len(csl.dims) > 1
       THEN pc' = "iter" /\ iter' = iter_new(csl) /\ result' = [tag |-> "Ok", val |-> << >>]
       ELSE pc' = "done" /\ iter' = NoIter /\ result' = [tag |-> "Abort", val |-> << >>]
  /\ UNCHANGED <<input, csl, prev, yielded, pool, log, builder>>

\* iter.next()
IterNext ==
  /\ pc = "iter"
  /\ op' = "next"
  /\ \E t \in iter_next(iter, csl).tags :
       /\ result' = [tag |-> t, val |-> << >>]
       /\ IF t = "Some"
            THEN /\ yielded' = Append(yielded, iter_next(iter, csl).item)
                 /\ iter' = [iter EXCEPT !.curr_idx = iter.curr_idx + 1]
                 /\ pc' = "iter"
            ELSE /\ pc' = "done"
                 /\ UNCHANGED <<iter, yielded>>
  /\ UNCHANGED <<input, csl, arg, prev, pool, log, builder>>

Next == New \/ Value \/ Truncate \/ SwapValue \/ OutermostIter \/ IterNext

Spec == Init /\ [][Next]_vars

NextNew == New

SpecNew == InitNew /\ [][NextNew]_vars

(***************************************************************************)
(* The outermost iterators of a store: construction, split_at as the       *)
(* parallel producer applies it, and the steps of the workers that hold    *)
(* the parts, in any order.                                                *)
(***************************************************************************)
\* a part: the iterator it, of kind "CslIterMut" (csl_iter.rs) or "CslLineIter"
\* (csl_line_iter.rs), and the worker id that holds it
Part(id, kind, it) == [id |-> id, kind |-> kind, it |-> it]

\* the stores of Init and the store without axes
InitIter ==
  \/ Init
  \/ \E f \in 0..MaxFirstOff : Start(Input(<< >>, << >>, << >>, <<f>>))

\* csl.outermost_iter_mut(), csl.outermost_rayon_iter_mut()
OutermostIterMut ==
  /\ pc = "store"
  /\ op' = "outermost_iter_mut"
  /\ arg' = << >>
  /\ IF Len(csl.dims) > 1
       THEN /\ pc' = "pool"
            /\ pool' = <<Part(1, "CslIterMut", iter_new(csl))>>
            /\ result' = [tag |-> "Ok", val |-> << >>]
       ELSE /\ pc' = "done"
            /\ pool' = << >>
            /\ result' = [tag |-> "Abort", val |-> << >>]
  /\ UNCHANGED <<input, csl, prev, iter, yielded, log, builder>>

\* csl.outermost_line_iter()
OutermostLineIter ==
  /\ pc = "store"
  /\ op' = "outermost_line_iter"
  /\ arg' = << >>
  /\ IF line_iter_new(csl) # None
       THEN /\ pc' = "pool"
            /\ pool' = <<Part(1, "CslLineIter", line_iter_new(csl)[1])>>
            /\ result' = [tag |-> "Ok", val |-> << >>]
       ELSE /\ pc' = "done"
            /\ pool' = << >>
            /\ result' = [tag |-> "InvalidIterDim", val |-> << >>]
  /\ UNCHANGED <<input, csl, prev, iter, yielded, log, builder>>

\* the sequence s with its i-th element replaced by the elements of r
Splice(s, i, r) == SubSeq(s, 1, i - 1) \o r \o SubSeq(s, i + 1, Len(s))

\* split_at(it, k) of either kind: Some(<<head, tail>>), or None when it panics
part_split_at(e, c, k) ==
  IF e.kind = "CslIterMut" THEN Some(iter_split_at(e.it, k))
  ELSE line_iter_split_at(e.it, c, k)

\* Producer::split_at(k) on the i-th part, 0 <= k <= len: the head stays with
\* its worker, the tail goes to a new one
SplitAt ==
  /\ pc = "pool"
  /\ Len(pool) < MaxPool
  /\ \E i \in 1..Len(pool) :
       \E k \in 0..(pool[i].it.max_idx - pool[i].it.curr_idx) :
         /\ arg' = <<i, k, pool[i]>>
         /\ IF part_split_at(pool[i], csl, k) # None
              THEN /\ pool' = Splice(pool, i,
                                <<Part(pool[i].id, pool[i].kind, part_split_at(pool[i], csl, k)[1][1]),
                                  Part(Len(pool) + 1, pool[i].kind, part_split_at(pool[i], csl, k)[1][2])>>)
                   /\ result' = [tag |-> "Ok", val |-> << >>]
                   /\ pc' = "pool"
              ELSE /\ pool' = pool
                   /\ result' = [tag |-> "Abort", val |-> << >>]
                   /\ pc' = "done"
  /\ op' = "split_at"
  /\ UNCHANGED <<input, csl, prev, iter, yielded, log, builder>>

\* one step of a part, forward ("next") or backward ("next_back"): the
\* outcomes a build can produce, the view, the positions of csl.data the view
\* covers and the iterator after the step
part_step(e, c, dir) ==
  IF e.kind = "CslIterMut"
    THEN LET r == IF dir = "next" THEN iter_next(e.it, c) ELSE iter_next_back(e.it, c)
             p == IF dir = "next" THEN e.it.curr_idx ELSE e.it.curr_idx - 1
         IN  [tags |-> r.tags, item |-> r.item,
              values |-> IF r.tags = {"Some"}
                           THEN outermost_offs(e.it.dims, c.offs, p, p + 1).offs_values
                           ELSE <<0, 0>>,
              it |-> IF r.tags = {"Some"}
                       THEN [e.it EXCEPT !.curr_idx = IF dir = "next" THEN p + 1 ELSE p]
                       ELSE e.it]
    ELSE LET r == IF dir = "next" THEN line_iter_next(e.it, c) ELSE line_iter_next_back(e.it, c)
         IN  [tags |-> {r.tag}, item |-> r.item, values |-> r.values, it |-> r.it]

\* what a step leaves in the log: the direction, the outermost position, the
\* worker, the view and the positions of csl.data that the view covers
Entry(dir, pos, id, r) == [dir |-> dir, pos |-> pos, by |-> id, item |-> r.item, values |-> r.values]

\* the worker that holds the i-th part takes a step
Step(i, dir) ==
  LET r == part_step(pool[i], csl, dir)
      pos == IF dir = "next" THEN pool[i].it.curr_idx ELSE pool[i].it.curr_idx - 1
  IN  /\ op' = dir
      /\ arg' = <<i>>
      /\ \E t \in r.tags :
           /\ result' = [tag |-> t, val |-> << >>]
           /\ IF t = "Some"
                THEN /\ log' = Append(log, Entry(dir, pos, pool[i].id, r))
                     /\ pool' = [pool EXCEPT ![i].it = r.it]
                     /\ pc' = "pool"
                ELSE IF t = "None"
                  THEN /\ log' = log
                       /\ pool' = [pool EXCEPT ![i].it = r.it]
                       /\ pc' = "pool"
                  ELSE /\ log' = log
                       /\ pool' = pool
                       /\ pc' = "done"
      /\ UNCHANGED <<input, csl, prev, iter, yielded, builder>>

\* next() on a part
PartNext ==
  /\ pc = "pool"
  /\ Len(log) < MaxSteps
  /\ \E i \in 1..Len(pool) : Step(i, "next")

\* next_back() on the iterator, not split
PartNextBack ==
  /\ pc = "pool"
  /\ Len(log) < MaxSteps
  /\ Len(pool) = 1
  /\ Step(1, "next_back")

NextIter == New \/ OutermostIterMut \/ OutermostLineIter \/ SplitAt \/ PartNext \/ PartNextBack

SpecIter == InitIter /\ [][NextIter]_vars

(***************************************************************************)
(* csl_line_constructor.rs and Csl::clear                                  *)
(***************************************************************************)
\* #[derive(Default)] on Csl, as with_capacity: every axis 0, every container
\* empty
default_csl(d) == [data |-> << >>, dims |-> [i \in 1..d |-> 0], indcs |-> << >>, offs |-> << >>]

\* csl.clear()
clear(c) == [data |-> << >>, dims |-> [i \in 1..Len(c.dims) |-> 0], indcs |-> << >>, offs |-> << >>]

\* dims.iter().position(|x| x != 0), or the number of axes
RECURSIVE first_non_zero(_, _)
first_non_zero(dims, idx) ==
  IF idx >= Len(dims) THEN Len(dims)
  ELSE IF dims[idx + 1] # 0 THEN idx ELSE first_non_zero(dims, idx + 1)

\* offs.last()
last_off(c) == IF Len(c.offs) = 0 THEN None ELSE Some(c.offs[Len(c.offs)])

\* CslLineConstructor::new: the unwrap of last_off on a store without offsets
\* panics
constructor_new(c) ==
  IF Len(c.dims) = 0 THEN [tag |-> "EmptyDimension", builder |-> NoBuilder]
  ELSE IF last_off(c) = None THEN [tag |-> "Abort", builder |-> NoBuilder]
  ELSE [tag |-> "Ok",
        builder |-> [curr_dim_idx |-> first_non_zero(c.dims, 0), last_off |-> last_off(c)[1]]]

\* the cursor is left where it is: no axis is given the size
next_outermost_dim_keeps_cursor(b, c, len) ==
  IF b.curr_dim_idx = 0 THEN [tag |-> "DimsOverflow", builder |-> b, csl |-> c]
  ELSE [tag |-> "Ok", builder |-> b, csl |-> c]

next_outermost_dim(b, c, len) ==
  IF b.curr_dim_idx = 0 THEN [tag |-> "DimsOverflow", builder |-> b, csl |-> c]
  ELSE [tag |-> "Ok",
        builder |-> [b EXCEPT !.curr_dim_idx = b.curr_dim_idx - 1],
        csl |-> [c EXCEPT !.dims[b.curr_dim_idx] = len]]

push_empty_line(b, c) ==
  [tag |-> "Ok", builder |-> b, csl |-> [c EXCEPT !.offs = Append(c.offs, b.last_off)]]

\* the indices and the values of a sequence of pairs <<idx, value>>
line_indcs(di) == [j \in 1..Len(di) |-> di[j][1]]

line_data(di) == [j \in 1..Len(di) |-> di[j][2]]

\* the first position whose index is not above its predecessor, or Len + 1
RECURSIVE first_unsorted(_, _)
first_unsorted(di, j) ==
  IF j > Len(di) THEN j
  ELSE IF di[j][1] <= di[j - 1][1] THEN j ELSE first_unsorted(di, j + 1)

\* push_line that pushes the pairs whatever their order
push_pairs_without_order_check(b, c, taken) ==
  LET off == saturating_add(b.last_off, 1) + Len(taken) - 1
  IN  IF Len(taken) = 0 THEN push_empty_line(b, c)
      ELSE [tag |-> "Ok",
            builder |-> [b EXCEPT !.last_off = off],
            csl |-> [c EXCEPT !.indcs = c.indcs \o line_indcs(taken),
                              !.data = c.data \o line_data(taken),
                              !.offs = Append(c.offs, off)]]

\* push_line whose offset counts the pairs of the line only
push_pairs_offset_of_line(b, c, taken) ==
  LET stop == first_unsorted(taken, 2)
  IN  IF Len(taken) = 0 THEN push_empty_line(b, c)
      ELSE IF stop <= Len(taken)
        THEN [tag |-> "UnsortedIndices",
              builder |-> b,
              csl |-> [c EXCEPT !.indcs = c.indcs \o line_indcs(SubSeq(taken, 1, stop - 1)),
                                !.data = c.data \o line_data(SubSeq(taken, 1, stop - 1))]]
      ELSE [tag |-> "Ok",
            builder |-> [b EXCEPT !.last_off = Len(taken)],
            csl |-> [c EXCEPT !.indcs = c.indcs \o line_indcs(taken),
                              !.data = c.data \o line_data(taken),
                              !.offs = Append(c.offs, Len(taken))]]

\* the body of push_line on the pairs that the zip lets through: the first
\* pair is pushed, each later one if its index is above the last; the pairs
\* before the first unsorted one stay pushed when the call fails
push_pairs(b, c, taken) ==
  LET stop == first_unsorted(taken, 2)
      off == saturating_add(b.last_off, 1) + Len(taken) - 1
  IN  IF Len(taken) = 0 THEN push_empty_line(b, c)
      ELSE IF stop <= Len(taken)
        THEN [tag |-> "UnsortedIndices",
              builder |-> b,
              csl |-> [c EXCEPT !.indcs = c.indcs \o line_indcs(SubSeq(taken, 1, stop - 1)),
                                !.data = c.data \o line_data(SubSeq(taken, 1, stop - 1))]]
      ELSE [tag |-> "Ok",
            builder |-> [b EXCEPT !.last_off = off],
            csl |-> [c EXCEPT !.indcs = c.indcs \o line_indcs(taken),
                              !.data = c.data \o line_data(taken),
                              !.offs = Append(c.offs, off)]]

\* push_line that takes every pair, however many the innermost axis holds
push_line_takes_every_pair(b, c, di) == push_pairs(b, c, di)

\* push_line(di): the pairs are zipped with 1..last_dim + 1, so at most last_dim
\* of them are taken
push_line(b, c, di) ==
  push_pairs(b, c, SubSeq(di, 1, Min2(Len(di), saturating_add(c.dims[Len(c.dims)], 1) - 1)))

(***************************************************************************)
(* The line constructor of a store: the store is one that new returned or  *)
(* a default one, possibly cleared; the calls on the constructor are       *)
(* chained while they succeed.                                             *)
(***************************************************************************)
\* the lines handed to push_line: pairs <<idx, value>> in any order
Lines == Seqs((0..(MaxDim - 1)) \X (1..MaxVal), MaxLine)

\* the stores of Init and the default stores
InitBuilder ==
  \/ Init
  \/ \E d \in 0..MaxD :
       /\ input = default_csl(d)
       /\ pc = "store"
       /\ csl = default_csl(d)
       /\ op = "default"
       /\ arg = << >>
       /\ result = NoResult
       /\ prev = NoCsl
       /\ iter = NoIter
       /\ yielded = << >>
       /\ pool = << >>
       /\ log = << >>
       /\ builder = NoBuilder

\* csl.clear()
Clear ==
  /\ pc = "store"
  /\ op' = "clear"
  /\ arg' = << >>
  /\ result' = NoResult
  /\ prev' = csl
  /\ csl' = clear(csl)
  /\ input' = clear(csl)
  /\ UNCHANGED <<pc, iter, yielded, pool, log, builder>>

\* csl.constructor()
Constructor ==
  /\ pc = "store"
  /\ op' = "constructor"
  /\ arg' = << >>
  /\ result' = [tag |-> constructor_new(csl).tag, val |-> << >>]
  /\ builder' = constructor_new(csl).builder
  /\ pc' = IF constructor_new(csl).tag = "Ok" THEN "builder" ELSE "done"
  /\ UNCHANGED <<input, csl, prev, iter, yielded, pool, log>>

\* what the log keeps of a successful call on the constructor
Call(name, di, len, last_dim) == [op |-> name, line |-> di, len |-> len, last_dim |-> last_dim]

\* the lines that were pushed
RECURSIVE pushed(_)
pushed(l) ==
  IF l = << >> THEN << >>
  ELSE IF Head(l).op = "next_outermost_dim" THEN pushed(Tail(l))
  ELSE <<Head(l)>> \o pushed(Tail(l))

\* one call on the constructor: r is its outcome
Chain(name, di, len, r) ==
  /\ op' = name
  /\ arg' = <<di, len, builder.curr_dim_idx>>
  /\ result' = [tag |-> r.tag, val |-> << >>]
  /\ prev' = csl
  /\ csl' = r.csl
  /\ builder' = r.builder
  /\ IF r.tag = "Ok"
       THEN pc' = "builder" /\ log' = Append(log, Call(name, di, len, csl.dims[Len(csl.dims)]))
       ELSE pc' = "done" /\ log' = log
  /\ UNCHANGED <<input, iter, yielded, pool>>

\* constructor.next_outermost_dim(len)
NextOutermostDim ==
  /\ pc = "builder"
  /\ \E len \in 0..MaxDim : Chain("next_outermost_dim", << >>, len, next_outermost_dim(builder, csl, len))

\* constructor.push_line(di)
PushLine ==
  /\ pc = "builder"
  /\ Len(pushed(log)) < MaxLines
  /\ \E di \in Lines : Chain("push_line", di, 0, push_line(builder, csl, di))

\* constructor.push_empty_line()
PushEmptyLine ==
  /\ pc = "builder"
  /\ Len(pushed(log)) < MaxLines
  /\ Chain("push_empty_line", << >>, 0, push_empty_line(builder, csl))

NextBuilder == New \/ Clear \/ Constructor \/ NextOutermostDim \/ PushLine \/ PushEmptyLine

SpecBuilder == InitBuilder /\ [][NextBuilder]_vars

(***************************************************************************)
(* The line of a multi-index.                                              *)
(***************************************************************************)
\* csl.line(indcs)
Line ==
  /\ pc = "store"
  /\ \E indcs \in IdxArgs(csl.dims) :
       /\ arg' = <<indcs>>
       /\ result' = [tag |-> IF line(csl, indcs) = None THEN "None" ELSE "Some",
                     val |-> line(csl, indcs)]
  /\ op' = "line"
  /\ pc' = "done"
  /\ UNCHANGED <<input, csl, prev, iter, yielded, pool, log, builder>>

NextLine == New \/ Line

SpecLine == Init /\ [][NextLine]_vars

(***************************************************************************)
(* new on shapes whose axis sizes are near the square root, the half and   *)
(* the maximum of the word.                                                *)
(***************************************************************************)
\* axis sizes from 0 to usize::MAX
BigDims ==
  {0, 1, 2, 2^(WordBits \div 2) - 1, 2^(WordBits \div 2), 2^(WordBits \div 2) + 1,
   2^(WordBits - 1), UsizeMax}

InitOverflow ==
  \E k \in 1..MaxD :
    \E d \in [1..k -> BigDims], v \in Seqs({1}, 1), x \in Seqs({0}, 1), o \in Seqs(0..1, RawOffsLen) :
      Start(Input(d, v, x, o))

NextOverflow == New

SpecOverflow == InitOverflow /\ [][NextOverflow]_vars

(***************************************************************************)
(* The read-only operations of a store, called any number of times and in  *)
(* any order: data, indcs, offs and dims, value, line, sub_dim and          *)
(* outermost_iter().nth.                                                   *)
(***************************************************************************)
\* Csl::data, Csl::indcs, Csl::offs, Csl::dims
Data(c) == c.data

Indcs(c) == c.indcs

\* offs() that returns the offsets counted from the first one
OffsFromZero(c) == [k \in 1..Len(c.offs) |-> c.offs[k] - c.offs[1]]

Offs(c) == c.offs

Dims(c) == c.dims

\* an Option as a result
Returned(o) == [tag |-> IF o = None THEN "None" ELSE "Some", val |-> o]

\* a call on &self that returns r: the store is left alone, a panic ends the run
Read(name, a, r) ==
  /\ pc = "store"
  /\ op' = name
  /\ arg' = a
  /\ result' = r
  /\ pc' = IF r.tag \in {"Abort", "UB"} THEN "done" ELSE "store"
  /\ UNCHANGED <<input, csl, prev, iter, yielded, pool, log, builder>>

\* csl.data(), csl.indcs(), csl.offs(), csl.dims()
ReadFields ==
  /\ pc = "store"
  /\ Read("fields", << >>, [tag |-> "Ok", val |-> <<Data(csl), Indcs(csl), Offs(csl), Dims(csl)>>])

\* csl.value(indcs)
ReadValue ==
  /\ pc = "store"
  /\ \E idx \in IdxArgs(csl.dims) : Read("value", <<idx>>, value(csl, idx))

\* csl.line(indcs)
ReadLine ==
  /\ pc = "store"
  /\ \E idx \in IdxArgs(csl.dims) : Read("line", <<idx>>, Returned(line(csl, idx)))

\* Csl::sub_dim::<TODA>(start..end) with TODA::CAPACITY = n: the assertion, then
\* sub_dim of csl_utils.rs
csl_sub_dim(c, n, start, end) ==
  IF ~(n <= Len(c.dims)) THEN [tag |-> "Abort", val |-> None]
  ELSE Returned(sub_dim(c, n, start, end))

\* csl.sub_dim(start..end)
ReadSubDim ==
  /\ pc = "store"
  /\ \E n \in 0..(Len(csl.dims) + 1), start \in 0..MaxDim, end \in 0..MaxDim :
       Read("sub_dim", <<n, start, end>>, csl_sub_dim(csl, n, start, end))

\* csl.outermost_iter().nth(i): the assertion of the constructor, then the calls
\* of next
outermost_iter_nth(c, i) ==
  IF ~(Len(c.dims) > 1) THEN [tags |-> {"Abort"}, item |-> NoView]
  ELSE IterNth(iter_new(c), c, i)

ReadNth ==
  /\ pc = "store"
  /\ \E i \in 0..MaxDim :
       \E t \in outermost_iter_nth(csl, i).tags :
         Read("nth", <<i>>, [tag |-> t,
                             val |-> IF t = "Some" THEN Some(outermost_iter_nth(csl, i).item) ELSE None])

NextView == New \/ ReadFields \/ ReadValue \/ ReadLine \/ ReadSubDim \/ ReadNth

SpecView == Init /\ [][NextView]_vars

(***************************************************************************)
(* The vocabulary of the properties.                                       *)
(***************************************************************************)
IsNonDecreasing(s) == \A i \in 1..Len(s) : \A j \in i..Len(s) : s[i] <= s[j]

IsStrictlyAscending(s) == \A i \in 1..Len(s) : \A j \in (i + 1)..Len(s) : s[i] < s[j]

HasNoZeroAxis(dims) == \A i \in 1..Len(dims) : dims[i] > 0

\* the product of all axis sizes except the innermost
RECURSIVE LineCount(_)
LineCount(dims) == IF Len(dims) <= 1 THEN 1 ELSE Head(dims) * LineCount(Tail(dims))

\* the multi-index lies within the shape
InBounds(idx, dims) == Len(idx) = Len(dims) /\ \A i \in 1..Len(dims) : idx[i] < dims[i]

AllIndices(dims) == {x \in [1..Len(dims) -> 0..MaxDim] : InBounds(x, dims)}

\* lexicographic order of multi-indices of equal length
LexLess(a, b) == \E i \in 1..Len(a) : a[i] < b[i] /\ \A j \in 1..(i - 1) : a[j] = b[j]

\* the row-major number of the line of idx, over all axes but the innermost
RECURSIVE LineNumberUpTo(_, _, _)
LineNumberUpTo(dims, idx, k) ==
  IF k = 0 THEN 0 ELSE LineNumberUpTo(dims, idx, k - 1) * dims[k] + idx[k]

LineNumber(dims, idx) == LineNumberUpTo(dims, idx, Len(dims) - 1)

\* the positions of values and indices that belong to line l (l = 0, 1, ...)
LinePositions(c, l) == (c.offs[l + 1] - c.offs[1] + 1)..(c.offs[l + 2] - c.offs[1])

LineIndices(c, l) == [k \in 1..(c.offs[l + 2] - c.offs[l + 1]) |-> c.indcs[c.offs[l + 1] - c.offs[1] + k]]

\* invariants 1 to 4 of a store
BasicInvariants(c) ==
  /\ Len(c.data) = Len(c.indcs)
  /\ Len(c.offs) >= 1
  /\ IsNonDecreasing(c.offs)
  /\ c.offs[Len(c.offs)] - c.offs[1] = Len(c.data)
  /\ \A k \in 1..Len(c.indcs) : c.indcs[k] < c.dims[Len(c.dims)]

\* invariant 5, given invariants 1 to 3
LinesStrictlyAscending(c) ==
  \A l \in 0..(Len(c.offs) - 2) : IsStrictlyAscending(LineIndices(c, l))

\* what value(idx) has to return on the store c
Stored(c, idx) == {k \in LinePositions(c, LineNumber(c.dims, idx)) : c.indcs[k] = idx[Len(idx)]}

ValueIsStored(c, idx, r) ==
  IF Stored(c, idx) = {} THEN r.tag = "None"
  ELSE r.tag = "Some" /\ \E k \in Stored(c, idx) : r.val = <<c.data[k]>>

(***************************************************************************)
(* C1: a store that new returns has as many values as indices,             *)
(* non-decreasing offsets whose last minus first is the number of values,  *)
(* every index below the innermost axis size and, when no axis is          *)
(* zero-sized, one offset per line plus one (two for a single axis).       *)
(***************************************************************************)
C1_NewEstablishesInvariants ==
  pc = "store" =>
    /\ BasicInvariants(csl)
    /\ HasNoZeroAxis(csl.dims) => Len(csl.offs) = LineCount(csl.dims) + 1
    /\ (HasNoZeroAxis(csl.dims) /\ Len(csl.dims) = 1) => Len(csl.offs) = 2

C1_Witness ==
  /\ pc = "store"
  /\ Len(csl.dims) = 2
  /\ HasNoZeroAxis(csl.dims)
  /\ Len(csl.data) = 2
  /\ Len(csl.offs) = 3
  /\ csl.offs[1] = 1

(***************************************************************************)
(* C2: in a store that new returns the indices of every line are strictly  *)
(* ascending; arguments with a line of distinct indices out of order are   *)
(* rejected.                                                               *)
(***************************************************************************)
C2_LinesStrictlyAscending == pc = "store" => LinesStrictlyAscending(csl)

\* new accepts a single line whose two distinct indices are out of order
C2_Witness ==
  pc = "store" /\ csl = Input(<<2>>, <<1, 1>>, <<1, 0>>, <<0, 2>>)

(***************************************************************************)
(* C3: on a store that new returns, value(idx) of a multi-index within the *)
(* shape is the value stored in idx's line under idx's innermost           *)
(* coordinate, and is absent exactly when the line holds no such entry.    *)
(***************************************************************************)
C3_ValueReturnsStoredEntry ==
  (op = "value" /\ InBounds(arg[1], csl.dims)) => ValueIsStored(csl, arg[1], result)

\* value([1]) is absent on the accepted store whose line is [1, 0]
C3_Witness ==
  /\ op = "value"
  /\ csl = Input(<<2>>, <<1, 2>>, <<1, 0>>, <<0, 2>>)
  /\ arg = <<(<<1>>)>>
  /\ result.tag = "None"

\* the number of offsets that a shape calls for: one per line plus one, the
\* zero-sized axes of a cut store counting for nothing
RECURSIVE NonZeroLineCount(_)
NonZeroLineCount(dims) ==
  IF Len(dims) <= 1 THEN 1
  ELSE (IF Head(dims) = 0 THEN 1 ELSE Head(dims)) * NonZeroLineCount(Tail(dims))

ExpectedOffsLen(dims) ==
  IF Len(dims) = 1 THEN 2
  ELSE IF \A i \in 1..Len(dims) : dims[i] = 0 THEN 1
  ELSE NonZeroLineCount(dims) + 1

\* all the structural invariants of a store
StructuralInvariants(c) ==
  /\ BasicInvariants(c)
  /\ LinesStrictlyAscending(c)
  /\ Len(c.offs) = ExpectedOffsLen(c.dims)

(***************************************************************************)
(* C4: truncate(idx) of a valid store, for any multi-index idx, leaves a   *)
(* store that satisfies all the structural invariants.                     *)
(***************************************************************************)
C4_TruncateKeepsInvariants ==
  (op = "truncate" /\ StructuralInvariants(prev)) => StructuralInvariants(csl)

\* truncate([1, 1]) keeps both values and leaves the offsets [0, 1, 1]
C4_Witness ==
  /\ op = "truncate"
  /\ prev = Input(<<2, 2>>, <<1, 2>>, <<0, 1>>, <<0, 1, 2>>)
  /\ arg = <<(<<1, 1>>)>>
  /\ csl = Input(<<2, 2>>, <<1, 2>>, <<0, 1>>, <<0, 1, 1>>)

(***************************************************************************)
(* C5: after truncate(idx) of a valid store, idx within the shape, value   *)
(* is what it was at every multi-index lexicographically below idx and is  *)
(* absent at idx and at every multi-index after it.                        *)
(***************************************************************************)
C5_TruncateCutsAtIndex ==
  (op = "truncate" /\ StructuralInvariants(prev) /\ InBounds(arg[1], prev.dims)) =>
    \A j \in AllIndices(prev.dims) :
      IF LexLess(j, arg[1]) THEN value(csl, j) = value(prev, j)
      ELSE value(csl, j).tag = "None"

\* truncate([1]) leaves the entry stored at [1] in place
C5_Witness ==
  /\ op = "truncate"
  /\ prev = Input(<<2>>, <<1>>, <<1>>, <<0, 1>>)
  /\ arg = <<(<<1>>)>>
  /\ csl = prev
  /\ value(csl, <<1>>).tag = "Some"

(***************************************************************************)
(* C6: swap_value(a, b) on a valid store returns success when a and b are  *)
(* both present, and then the two values have changed places and nothing   *)
(* else has changed; it returns failure when a or b is absent, and then    *)
(* nothing has changed.                                                    *)
(***************************************************************************)
C6_SwapValueExchangesOrFails ==
  (op = "swap_value" /\ StructuralInvariants(prev)) =>
    IF value(prev, arg[1]).tag = "Some" /\ value(prev, arg[2]).tag = "Some"
      THEN /\ result.tag = "true"
           /\ value(csl, arg[1]) = value(prev, arg[2])
           /\ value(csl, arg[2]) = value(prev, arg[1])
           /\ csl.indcs = prev.indcs /\ csl.offs = prev.offs /\ csl.dims = prev.dims
           /\ Len(csl.data) = Len(prev.data)
           /\ \A k \in 1..Len(prev.data) :
                (<<k - 1>> # data_idx(prev, arg[1]) /\ <<k - 1>> # data_idx(prev, arg[2]))
                  => csl.data[k] = prev.data[k]
      ELSE result.tag = "false" /\ csl = prev

\* swap_value([2], [0]) on a store of shape [2]: the assertion on a fails
C6_Witness ==
  /\ op = "swap_value"
  /\ prev = Input(<<2>>, <<1>>, <<0>>, <<0, 1>>)
  /\ arg = <<(<<2>>), (<<0>>)>>
  /\ result.tag = "Abort"

\* the invariants that the arguments of new violate, each under the name of
\* its error
Capacity(dims) ==
  IF \A i \in 1..Len(dims) : dims[i] = 0 THEN 0
  ELSE IF Len(dims) = 1 THEN dims[1]
  ELSE NonZeroLineCount(dims) * dims[Len(dims)]

\* a line with a repeated index, among the lines that lie within indcs
HasRepeatedIndexInLine(i) ==
  \E w \in 1..(Len(i.offs) - 1) :
    /\ i.offs[1] <= i.offs[w] /\ i.offs[w] <= i.offs[w + 1]
    /\ i.offs[w + 1] - i.offs[1] <= Len(i.indcs)
    /\ \E a, b \in (i.offs[w] - i.offs[1] + 1)..(i.offs[w + 1] - i.offs[1]) :
         a # b /\ i.indcs[a] = i.indcs[b]

Violated(i) ==
  {e \in {"DiffDataIndcsLength", "InvalidOffsetsOrder", "DataIndcsLengthGreaterThanDimsLength",
          "DuplicatedIndices", "IndcsGreaterThanEqualDimLength", "InvalidOffsetsLength"} :
     \/ e = "DiffDataIndcsLength" /\ Len(i.data) # Len(i.indcs)
     \/ e = "InvalidOffsetsOrder" /\ ~IsNonDecreasing(i.offs)
     \/ e = "DataIndcsLengthGreaterThanDimsLength"
          /\ (Len(i.data) > Capacity(i.dims) \/ Len(i.indcs) > Capacity(i.dims))
     \/ e = "DuplicatedIndices" /\ HasRepeatedIndexInLine(i)
     \/ e = "IndcsGreaterThanEqualDimLength"
          /\ \E k \in 1..Len(i.indcs) : i.indcs[k] >= i.dims[Len(i.dims)]
     \/ e = "InvalidOffsetsLength" /\ Len(i.offs) # ExpectedOffsLen(i.dims)}

\* the fixed order of the checks
Rank(e) ==
  CASE e = "DiffDataIndcsLength" -> 1
    [] e = "InvalidOffsetsOrder" -> 2
    [] e = "DataIndcsLengthGreaterThanDimsLength" -> 3
    [] e = "DuplicatedIndices" -> 4
    [] e = "IndcsGreaterThanEqualDimLength" -> 5
    [] e = "InvalidOffsetsLength" -> 6
    [] OTHER -> 0

ErrorKinds ==
  {"InnermostDimsZero", "DiffDataIndcsLength", "InvalidOffsetsOrder",
   "DataIndcsLengthGreaterThanDimsLength", "DuplicatedIndices", "LastOffsetDifferentNnz",
   "IndcsGreaterThanEqualDimLength", "OffsLengthOverflow", "InvalidOffsetsLength"}

(***************************************************************************)
(* C7: new answers arguments that violate invariants with a typed error    *)
(* and no store; the error is that of the earliest violated check in the   *)
(* order values/indices length, offsets order, capacity, duplicates in a   *)
(* line, index bound, offsets length.                                      *)
(***************************************************************************)
C7_FirstViolatedCheckIsReported ==
  (op = "new" /\ Violated(input) # {}) =>
    /\ result.tag \in ErrorKinds
    /\ csl = NoCsl
    /\ Rank(result.tag) > 0 =>
         /\ result.tag \in Violated(input)
         /\ \A e \in Violated(input) : Rank(result.tag) <= Rank(e)

\* an index out of bound and one offset too many, the last one past indcs
C7_Witness ==
  /\ op = "new"
  /\ input = Input(<<2>>, <<1, 1>>, <<0, 2>>, <<0, 2, 3>>)
  /\ result.tag = "Abort"

(***************************************************************************)
(* C8: arguments with a valid shape, as many indices as values,            *)
(* non-decreasing offsets, no more values than the capacity and pairwise   *)
(* distinct indices within the bound, whose last offset minus the first is *)
(* not the number of values, make new fail with LastOffsetDifferentNnz,    *)
(* also when an offset points past the end of the indices.                 *)
(***************************************************************************)
C8_LastOffsetDifferentNnzIsReported ==
  ( /\ op = "new"
    /\ \A a, b \in 1..Len(input.dims) : (a < b /\ input.dims[a] # 0) => input.dims[b] # 0
    /\ Len(input.data) = Len(input.indcs)
    /\ IsNonDecreasing(input.offs)
    /\ Len(input.data) <= Capacity(input.dims)
    /\ IsStrictlyAscending(input.indcs)
    /\ \A k \in 1..Len(input.indcs) : input.indcs[k] < input.dims[Len(input.dims)]
    /\ Len(input.offs) >= 1
    /\ input.offs[Len(input.offs)] - input.offs[1] # Len(input.data) )
  => result.tag = "LastOffsetDifferentNnz"

\* the last offset is past the end of indcs
C8_Witness ==
  /\ op = "new"
  /\ input = Input(<<2>>, <<1, 1>>, <<0, 1>>, <<0, 3>>)
  /\ result.tag = "Abort"

C10_OutermostIterYieldsSubDims ==
  (op \in {"outermost_iter", "next"} /\ Len(csl.dims) > 1 /\ StructuralInvariants(csl)) =>
    /\ result.tag \in {"Ok", "Some", "None"}
    /\ \A k \in 1..Len(yielded) : Some(yielded[k]) = sub_dim(csl, Len(csl.dims), k - 1, k)
    /\ Len(yielded) <= csl.dims[1]
    /\ result.tag = "None" => Len(yielded) = csl.dims[1]

\* the offsets start at 1: the second next() reads past the end of the store
C10_Witness ==
  /\ op = "next"
  /\ csl = Input(<<2, 1>>, <<1, 2>>, <<0, 0>>, <<1, 2, 3>>)
  /\ Len(yielded) = 1
  /\ result.tag = "Abort"

\* what draining a part with next() yields: the views up to the first call
\* that yields none, and the outcomes of that call
RECURSIVE Drain(_, _)
Drain(e, c) ==
  LET r == part_step(e, c, "next")
  IN  IF r.tags = {"Some"}
        THEN LET d == Drain([e EXCEPT !.it = r.it], c)
             IN  [views |-> <<r.item>> \o d.views, tags |-> d.tags]
        ELSE [views |-> << >>, tags |-> r.tags]

\* draining a and then b
DrainThen(a, b) ==
  IF a.tags = {"None"} THEN [views |-> a.views \o b.views, tags |-> b.tags] ELSE a

(***************************************************************************)
(* C11: split_at(k), 0 <= k <= max - current, of an iterator at current    *)
(* with bound max returns the iterators of current..current+k and of       *)
(* current+k..max, and draining the first and then the second yields the   *)
(* views that draining the iterator itself yields, in the same order; this *)
(* for both iterators, for parts that were split before and for any        *)
(* position that forward steps have brought the iterator to.               *)
(***************************************************************************)
C11_SplitAtKeepsTheSequence ==
  ( /\ op = "split_at"
    /\ Len(csl.dims) > 1
    /\ \A n \in 1..Len(log) : log[n].dir = "next" ) =>
    LET i == arg[1]
        k == arg[2]
        whole == arg[3]
    IN  /\ result.tag = "Ok"
        /\ pool[i].it.curr_idx = whole.it.curr_idx
        /\ pool[i].it.max_idx = whole.it.curr_idx + k
        /\ pool[i + 1].it.curr_idx = whole.it.curr_idx + k
        /\ pool[i + 1].it.max_idx = whole.it.max_idx
        /\ DrainThen(Drain(pool[i], csl), Drain(pool[i + 1], csl)) = Drain(whole, csl)

\* an iterator over two outermost positions with one value each is split in
\* the middle
C11_Witness ==
  /\ op = "split_at"
  /\ log = << >>
  /\ Len(csl.dims) > 1
  /\ arg[2] = 1
  /\ arg[3].it.curr_idx = 0
  /\ arg[3].it.max_idx = 2
  /\ Len(Drain(arg[3], csl).views) = 2
  /\ Len(Drain(pool[arg[1]], csl).views) = 1
  /\ Len(Drain(pool[arg[1]], csl).views[1].data) = 1
  /\ Len(Drain(pool[arg[1] + 1], csl).views[1].data) = 1

\* every part has yielded all its positions
AllDrained == \A i \in 1..Len(pool) : pool[i].it.curr_idx >= pool[i].it.max_idx

\* two ranges <<start, end>> of positions share a position
Overlap(r, q) == r[1] < r[2] /\ q[1] < q[2] /\ r[1] < q[2] /\ q[1] < r[2]

(***************************************************************************)
(* C12: however the mutable outermost iterator of a valid store is split   *)
(* and in whatever order the workers drain the parts, no step aborts, the  *)
(* views of two workers never share a position of the values, no outermost *)
(* position is yielded twice, and once all parts are drained every         *)
(* position 0..dims[0]-1 has been yielded.                                 *)
(***************************************************************************)
C12_MutableSplitsAreDisjoint ==
  ( /\ pc \in {"pool", "done"}
    /\ Len(pool) >= 1
    /\ pool[1].kind = "CslIterMut"
    /\ StructuralInvariants(csl)
    /\ \A n \in 1..Len(log) : log[n].dir = "next" ) =>
    /\ result.tag \notin {"Abort", "UB"}
    /\ \A m, n \in 1..Len(log) :
         m # n => /\ log[m].pos # log[n].pos
                  /\ log[m].by # log[n].by => ~Overlap(log[m].values, log[n].values)
    /\ AllDrained => {log[n].pos : n \in 1..Len(log)} = 0..(csl.dims[1] - 1)

\* the offsets start at 1: the worker of the second position aborts
C12_Witness ==
  /\ csl = Input(<<2, 1>>, <<1, 2>>, <<0, 0>>, <<1, 2, 3>>)
  /\ Len(pool) = 2
  /\ pool[1].kind = "CslIterMut"
  /\ op = "next"
  /\ arg = <<2>>
  /\ result.tag = "Abort"

(***************************************************************************)
(* C13: on a fresh outermost iterator of a valid store of more than one    *)
(* axis, next_back alone yields the views of the positions dims[0]-1, ..., *)
(* 0, each equal to sub_dim(i..i+1), and then None; with next and          *)
(* next_back mixed no position is yielded twice.                           *)
(***************************************************************************)
C13_NextBackYieldsFromTheTail ==
  ( /\ pc \in {"pool", "done"}
    /\ Len(pool) = 1
    /\ Len(csl.dims) > 1
    /\ StructuralInvariants(csl) ) =>
    /\ (\A n \in 1..Len(log) : log[n].dir = "next_back") =>
         /\ result.tag \notin {"Abort", "UB"}
         /\ \A n \in 1..Len(log) :
              /\ log[n].pos = csl.dims[1] - n
              /\ Some(log[n].item) = sub_dim(csl, Len(csl.dims), log[n].pos, log[n].pos + 1)
         /\ (op = "next_back" /\ result.tag = "None") => Len(log) = csl.dims[1]
    /\ \A m, n \in 1..Len(log) : m # n => log[m].pos # log[n].pos

\* next_back on the fresh iterator of a store of two lines yields nothing
C13_Witness ==
  /\ csl = Input(<<2, 1>>, <<1, 2>>, <<0, 0>>, <<0, 1, 2>>)
  /\ Len(pool) = 1
  /\ op = "next_back"
  /\ result.tag = "None"
  /\ log = << >>

(***************************************************************************)
(* C14: the construction of an outermost iterator on a store of no axis or *)
(* of one axis is answered with the error InvalidIterDim: it does not      *)
(* abort and no view is ever yielded.                                      *)
(***************************************************************************)
C14_IterOnFewAxesIsAnError ==
  ( /\ op \in {"outermost_iter_mut", "outermost_line_iter", "split_at", "next", "next_back"}
    /\ Len(csl.dims) <= 1 ) =>
    /\ result.tag = "InvalidIterDim"
    /\ pool = << >>
    /\ log = << >>

\* the line iterator of a store of one axis is built and yields a view
C14_Witness ==
  /\ csl = Input(<<2>>, <<1, 2>>, <<0, 1>>, <<0, 2>>)
  /\ Len(pool) = 1
  /\ pool[1].kind = "CslLineIter"
  /\ op = "next"
  /\ result.tag = "Some"
  /\ Len(log) = 1

\* the indices, the values and the offsets of the store that holds the lines l
\* after the offset first
RECURSIVE LinesIndcs(_)
LinesIndcs(l) == IF l = << >> THEN << >> ELSE line_indcs(Head(l).line) \o LinesIndcs(Tail(l))

RECURSIVE LinesData(_)
LinesData(l) == IF l = << >> THEN << >> ELSE line_data(Head(l).line) \o LinesData(Tail(l))

RECURSIVE LinesOffs(_, _)
LinesOffs(l, first) ==
  IF l = << >> THEN <<first>>
  ELSE <<first>> \o LinesOffs(Tail(l), first + Len(Head(l).line))

EveryLineAscending(c) ==
  \A l \in 0..(Len(c.offs) - 2) :
    \A j, k \in (c.offs[l + 1] - c.offs[1] + 1)..(c.offs[l + 2] - c.offs[1]) :
      j < k => c.indcs[j] < c.indcs[k]

\* invariants 1, 2, 3 and 5
BuilderInvariants(c) ==
  /\ Len(c.data) = Len(c.indcs)
  /\ Len(c.offs) >= 1
  /\ IsNonDecreasing(c.offs)
  /\ c.offs[Len(c.offs)] - c.offs[1] = Len(c.data)
  /\ EveryLineAscending(c)

(***************************************************************************)
(* C16: after any sequence of next_outermost_dim, push_line and            *)
(* push_empty_line calls that all succeed, on a store that satisfied them  *)
(* before, the store has as many values as indices, non-decreasing         *)
(* offsets, offsets.last - offsets.first = number of values and strictly   *)
(* ascending indices in every line, and the last offset the constructor    *)
(* remembers is offsets.last.                                              *)
(***************************************************************************)
C16_BuilderKeepsInvariants ==
  (pc = "builder" /\ BuilderInvariants(input)) =>
    /\ BuilderInvariants(csl)
    /\ builder.last_off = csl.offs[Len(csl.offs)]

\* two lines pushed onto a store of two values whose offsets start at 1
C16_Witness ==
  /\ pc = "builder"
  /\ BuilderInvariants(input)
  /\ Len(input.data) = 2
  /\ input.offs[1] = 1
  /\ Len(pushed(log)) = 2
  /\ Len(log[1].line) = 2
  /\ Len(csl.data) = 4
  /\ builder.last_off = 5

\* the pairs of di that push_line takes on a store whose innermost axis has
\* the size last_dim
Taken(di, last_dim) == SubSeq(di, 1, Min2(Len(di), last_dim))

(***************************************************************************)
(* C17, as stated: push_line(pairs) fails with UnsortedIndices whenever    *)
(* an index of the sequence is equal to or smaller than its predecessor,   *)
(* and succeeds otherwise.                                                 *)
(***************************************************************************)
C17_UnsortedWheneverNotAscending ==
  op = "push_line" =>
    /\ ~IsStrictlyAscending(line_indcs(arg[1])) => result.tag = "UnsortedIndices"
    /\ IsStrictlyAscending(line_indcs(arg[1])) => result.tag = "Ok"

(***************************************************************************)
(* C17, amended: push_line(pairs) takes the first min(n, innermost axis    *)
(* size) pairs; it fails with UnsortedIndices exactly when among these an  *)
(* index is equal to or smaller than its predecessor, and succeeds         *)
(* otherwise, the pairs beyond them being dropped unread.                  *)
(***************************************************************************)
C17_UnsortedAmongTakenPairs ==
  op = "push_line" =>
    LET taken == Taken(arg[1], prev.dims[Len(prev.dims)])
    IN  /\ ~IsStrictlyAscending(line_indcs(taken)) => result.tag = "UnsortedIndices"
        /\ IsStrictlyAscending(line_indcs(taken)) =>
             /\ result.tag = "Ok"
             /\ csl.indcs = prev.indcs \o line_indcs(taken)
             /\ csl.data = prev.data \o line_data(taken)

\* a line of two pairs with a repeated index is pushed onto a store whose
\* innermost axis holds one: the call succeeds and pushes the first pair
C17_Witness ==
  /\ op = "push_line"
  /\ prev.dims[Len(prev.dims)] = 1
  /\ line_indcs(arg[1]) = <<0, 0>>
  /\ result.tag = "Ok"
  /\ Len(csl.data) = Len(prev.data) + 1

(***************************************************************************)
(* C18: next_outermost_dim(len) fails with DimsOverflow exactly when the   *)
(* cursor of the constructor has reached the outermost axis, and leaves    *)
(* the store as it is; otherwise it sets the size of the axis before the   *)
(* cursor to len and changes no other axis, value, index or offset.  From  *)
(* an all-zero shape of D axes D calls in a row succeed and the next fails.*)
(***************************************************************************)
C18_NextOutermostDimOverflow ==
  op = "next_outermost_dim" =>
    LET len == arg[2]
        cursor == arg[3]
    IN  /\ result.tag \in {"Ok", "DimsOverflow"}
        /\ result.tag = "DimsOverflow" <=> cursor = 0
        /\ result.tag = "DimsOverflow" => csl = prev
        /\ result.tag = "Ok" =>
             /\ csl = [prev EXCEPT !.dims[cursor] = len]
             /\ builder.curr_dim_idx = cursor - 1
        /\ (is_default(input.dims) /\ pushed(log) = << >>) =>
             /\ result.tag = "Ok" => Len(log) <= Len(csl.dims)
             /\ result.tag = "DimsOverflow" => Len(log) = Len(csl.dims)

\* the fourth call on the all-zero shape of three axes fails
C18_Witness ==
  /\ op = "next_outermost_dim"
  /\ input.dims = <<0, 0, 0>>
  /\ Len(log) = 3
  /\ pushed(log) = << >>
  /\ log[1].len = 2
  /\ csl.dims[3] = 2
  /\ result.tag = "DimsOverflow"

(***************************************************************************)
(* C19: clear() empties the values, the indices and the shape (every axis  *)
(* 0) and leaves the offsets as the single element [0], so that a line     *)
(* constructor can be started on the cleared store.                        *)
(***************************************************************************)
C19_ClearLeavesTheBaselineOffset ==
  /\ op = "clear" =>
       /\ csl.data = << >>
       /\ csl.indcs = << >>
       /\ Len(csl.dims) = Len(prev.dims)
       /\ is_default(csl.dims)
       /\ csl.offs = <<0>>
  /\ (op = "constructor" /\ prev # NoCsl /\ Len(csl.dims) > 0) => result.tag = "Ok"

\* a store of two lines is cleared: no offset is left and constructor() aborts
C19_Witness ==
  /\ op = "constructor"
  /\ prev = Input(<<2, 1>>, <<1, 2>>, <<0, 0>>, <<0, 1, 2>>)
  /\ csl = default_csl(2)
  /\ result.tag = "Abort"

\* the view of the line l = 0.. of the store, as the offsets delimit it
LineView(c, l) ==
  View([k \in 1..(c.offs[l + 2] - c.offs[l + 1]) |-> c.data[c.offs[l + 1] - c.offs[1] + k]],
       <<c.dims[Len(c.dims)]>>,
       LineIndices(c, l),
       <<c.offs[l + 1], c.offs[l + 2]>>)

(***************************************************************************)
(* C20: on a valid store and for an in-range multi-index idx, line(idx)    *)
(* does not depend on the innermost coordinate of idx and is the view of   *)
(* one axis, of shape [innermost axis size], whose values and indices are  *)
(* the slice of the line of idx and whose offsets are the pair             *)
(* (offsets[line], offsets[line+1]); on a store of two axes line([i, 0])   *)
(* is sub_dim(0..dims[1]), taken with one axis, of the i-th view that      *)
(* outermost_iter() yields.                                                *)
(***************************************************************************)
C20_LineIsTheLineOfTheIndex ==
  (op = "line" /\ StructuralInvariants(csl) /\ InBounds(arg[1], csl.dims)) =>
    LET idx == arg[1]
        D == Len(csl.dims)
    IN  /\ result.val = Some(LineView(csl, LineNumber(csl.dims, idx)))
        /\ result.val = line(csl, [idx EXCEPT ![D] = 0])
        /\ (D = 2 /\ idx[2] = 0) =>
             /\ IterNth(iter_new(csl), csl, idx[1]).tags = {"Some"}
             /\ sub_dim(IterNth(iter_new(csl), csl, idx[1]).item, 1, 0, csl.dims[2]) = result.val

\* the second line of a store of two axes whose offsets start at 1
C20_Witness ==
  /\ op = "line"
  /\ csl = Input(<<2, 1>>, <<1, 2>>, <<0, 0>>, <<1, 2, 3>>)
  /\ arg[1] = <<1, 0>>
  /\ result.val = Some(View(<<2>>, <<1>>, <<0>>, <<2, 3>>))
  /\ IterNth(iter_new(csl), csl, 1).tags = {"Abort", "UB"}

\* the range start..end lies within the axis that sub_dim with n axes slices:
\* the innermost coordinates for n = 1, the axis D - n otherwise
RangeInBounds(c, n, start, end) ==
  /\ start <= end
  /\ n >= 1 => end <= c.dims[Len(c.dims) - n + 1]
  /\ n = 0 => end <= c.dims[1]

(***************************************************************************)
(* C21: on a valid store sub_dim(range, N) with N at most the number of    *)
(* axes, range.start <= range.end and the range within the axis that is    *)
(* sliced never returns absent; for N = 0 it returns an empty view.        *)
(***************************************************************************)
C21_SubDimAbsentOnlyOnBadArguments ==
  ( /\ op = "sub_dim"
    /\ StructuralInvariants(csl)
    /\ arg[1] <= Len(csl.dims)
    /\ RangeInBounds(csl, arg[1], arg[2], arg[3]) ) =>
    /\ result.tag = "Some"
    /\ arg[1] = 0 => result.val = Some(View(<< >>, << >>, << >>, << >>))

\* sub_dim(0..1) with no axis on a store of two axes whose offsets start at 0
C21_Witness ==
  /\ op = "sub_dim"
  /\ csl = Input(<<2, 1>>, <<1, 2>>, <<0, 0>>, <<0, 1, 2>>)
  /\ arg = <<0, 0, 1>>
  /\ result.tag = "None"

\* some coordinate of idx is not below the size of its axis
OutOfShape(idx, dims) == \E i \in 1..Len(dims) : idx[i] >= dims[i]

(***************************************************************************)
(* C22: on a store that new accepted, value, swap_value and truncate never *)
(* abort, whatever the multi-indices; when a multi-index has a coordinate  *)
(* outside the shape, value returns absent and swap_value returns failure  *)
(* and leaves the store alone.                                             *)
(***************************************************************************)
C22_OperationsNeverAbort ==
  /\ op \in {"value", "swap_value", "truncate"} => result.tag \notin {"Abort", "UB"}
  /\ (op = "value" /\ OutOfShape(arg[1], csl.dims)) => result.tag = "None"
  /\ (op = "swap_value" /\ (OutOfShape(arg[1], prev.dims) \/ OutOfShape(arg[2], prev.dims))) =>
       result.tag = "false" /\ csl = prev

\* swap_value([1, 1], [0, 0]) on a store of shape [1, 1]: the assertion that
\* the first multi-index is below the shape fails
C22_Witness ==
  /\ op = "swap_value"
  /\ prev = Input(<<1, 1>>, <<1>>, <<0>>, <<0, 1>>)
  /\ arg = <<(<<1, 1>>), (<<0, 0>>)>>
  /\ result.tag = "Abort"

\* the offsets length that the shape calls for, in unbounded arithmetic
TrueOffsLen(dims) ==
  IF Len(dims) = 1 THEN 2
  ELSE IF is_default(dims) THEN 1
  ELSE product(non_zero(init_seq(dims))) + 1

FirstLineWithin(c, a, b) ==
  {k \in 1..(c.offs[2] - c.offs[1]) : a <= c.indcs[k] /\ c.indcs[k] < b}

\* the j-th smallest element of a set of numbers
Nth(K, j) == CHOOSE k \in K : Cardinality({m \in K : m < k}) = j - 1

(***************************************************************************)
(* C25: on a store with a first line, sub_dim(a..b) with one target axis   *)
(* and a <= b returns a view whose indices are the indices c of the first  *)
(* line with a <= c < b, in ascending order, and whose values are the      *)
(* values stored with those indices.                                       *)
(***************************************************************************)
C25_SubDimOfOneAxisTrimsTheFirstLine ==
  ( /\ op = "sub_dim"
    /\ arg[1] = 1
    /\ arg[2] <= arg[3]
    /\ Len(csl.offs) >= 2 ) =>
    /\ result.tag = "Some"
    /\ LET view == result.val[1]
           K == FirstLineWithin(csl, arg[2], arg[3])
       IN  /\ Len(view.indcs) = Cardinality(K)
           /\ Len(view.data) = Cardinality(K)
           /\ IsStrictlyAscending(view.indcs)
           /\ \A j \in 1..Cardinality(K) :
                /\ view.indcs[j] = csl.indcs[Nth(K, j)]
                /\ view.data[j] = csl.data[Nth(K, j)]

\* sub_dim(0..2) on the line (1, 1), (0, 2), which new accepts: no slice of the
\* line holds both entries in ascending order
C25_Witness ==
  /\ op = "sub_dim"
  /\ csl = Input(<<2>>, <<1, 2>>, <<1, 0>>, <<0, 2>>)
  /\ arg = <<1, 0, 2>>
  /\ result.tag = "Some"
  /\ result.val[1].indcs # <<0, 1>>

(***************************************************************************)
(* C26: a push_line call that fails with UnsortedIndices leaves the values, *)
(* the indices, the offsets and the shape as they were before the call.    *)
(***************************************************************************)
C26_FailedPushLineLeavesTheStore ==
  (op = "push_line" /\ result.tag = "UnsortedIndices") => csl = prev

\* push_line([(1, 1), (0, 1)]) on the empty store of shape [0, 2]: the first
\* pair stays in the store
C26_Witness ==
  /\ op = "push_line"
  /\ prev = Input(<<0, 2>>, << >>, << >>, <<0>>)
  /\ arg[1] = <<(<<1, 1>>), (<<0, 1>>)>>
  /\ result.tag = "UnsortedIndices"
  /\ csl = Input(<<0, 2>>, <<1>>, <<1>>, <<0>>)

(***************************************************************************)
(* C27: value(idx) returns absent whenever a coordinate of idx is equal to *)
(* or above the size of its axis.                                          *)
(***************************************************************************)
C27_ValueOutsideTheShapeIsAbsent ==
  (op = "value" /\ OutOfShape(arg[1], csl.dims)) => result.tag = "None"

\* value([0, 2, 0]) on shape [2, 2, 1] returns the entry stored at [1, 0, 0]
C27_Witness ==
  /\ op = "value"
  /\ csl = Input(<<2, 2, 1>>, <<2>>, <<0>>, <<0, 0, 0, 1, 1>>)
  /\ arg = <<(<<0, 2, 0>>)>>
  /\ result = value(csl, <<1, 0, 0>>)
  /\ result.tag = "Some"

\* the sizes of the non-innermost axes that the constructor has assigned: the
\* axes from the cursor on
AssignedOuterDims(b, c) ==
  [i \in 1..(Len(c.dims) - 1 - Min2(b.curr_dim_idx, Len(c.dims) - 1)) |->
     c.dims[Min2(b.curr_dim_idx, Len(c.dims) - 1) + i]]

(***************************************************************************)
(* C28: after successful calls on the constructor of an empty store, every *)
(* stored index is below the innermost axis size and the number of lines   *)
(* pushed, offs.len() - 1, is at most the product of the non-innermost     *)
(* axis sizes assigned so far (sizes of 0 left out, as new leaves them).   *)
(***************************************************************************)
C28_BuilderKeepsAPrefixOfAnAcceptedStore ==
  (pc = "builder" /\ input.data = << >> /\ input.offs = <<0>>) =>
    /\ \A k \in 1..Len(csl.indcs) : csl.indcs[k] < csl.dims[Len(csl.dims)]
    /\ Len(csl.offs) - 1 <= product(non_zero(AssignedOuterDims(builder, csl)))

\* next_outermost_dim(1), then push_line([(1, 1)]): the index 1 is stored on an
\* innermost axis of size 1
C28_Witness ==
  /\ pc = "builder"
  /\ op = "push_line"
  /\ input = Input(<<0, 0>>, << >>, << >>, <<0>>)
  /\ prev = Input(<<0, 1>>, << >>, << >>, <<0>>)
  /\ arg[1] = <<(<<1, 1>>)>>
  /\ csl = Input(<<0, 1>>, <<1>>, <<1>>, <<0, 1>>)

\* the invariants that new enforces, on a view
ViewInvariants(v) == BasicInvariants(v) /\ Len(v.offs) = ExpectedOffsLen(v.dims)

(***************************************************************************)
(* C29: every view that line, sub_dim with one axis or more and a range    *)
(* within the axis, or the outermost iterator returns from a valid store   *)
(* has as many values as indices, non-decreasing offsets whose last minus  *)
(* first is the number of values, indices below the innermost axis size    *)
(* and as many offsets as its shape calls for.                             *)
(***************************************************************************)
C29_ViewsKeepTheInvariants ==
  ( /\ op \in {"line", "sub_dim", "nth"}
    /\ StructuralInvariants(csl)
    /\ result.tag = "Some"
    /\ op = "sub_dim" => arg[1] >= 1 /\ RangeInBounds(csl, arg[1], arg[2], arg[3]) ) =>
    ViewInvariants(result.val[1])

\* sub_dim(0..1) with one axis on the line (0, 1), (1, 2): one value is kept
\* with the offsets 0 and 2 of the whole line
C29_Witness ==
  /\ op = "sub_dim"
  /\ csl = Input(<<2>>, <<1, 2>>, <<0, 1>>, <<0, 2>>)
  /\ arg = <<1, 0, 1>>
  /\ result.tag = "Some"
  /\ result.val[1] = View(<<1>>, <<2>>, <<0>>, <<0, 2>>)

\* the multi-indices of a shape of two axes or more whose coordinates past the
\* first are within their axes, each with first coordinate i
WithFirst(dims, i) ==
  {x \in [1..Len(dims) -> 0..MaxDim] :
     x[1] = i /\ \A k \in 2..Len(dims) : x[k] < dims[k]}

(***************************************************************************)
(* C30: on a valid store of two axes or more, for every i below the size   *)
(* of the outermost axis the iterator yields an i-th view, and value on    *)
(* that view at [0, r...] equals value on the store at [i, r...] for every *)
(* choice r of the other coordinates within their axes.                    *)
(***************************************************************************)
C30_LookupsThroughAViewAgree ==
  ( /\ op = "nth"
    /\ StructuralInvariants(csl)
    /\ Len(csl.dims) > 1
    /\ arg[1] < csl.dims[1] ) =>
    /\ result.tag = "Some"
    /\ \A x \in WithFirst(csl.dims, arg[1]) :
         value(result.val[1], [x EXCEPT ![1] = 0]) = value(csl, x)

\* the first view of a store whose offsets start at 1 holds the value of the
\* second line
C30_Witness ==
  /\ op = "nth"
  /\ csl = Input(<<2, 1>>, <<1, 2>>, <<0, 0>>, <<1, 2, 3>>)
  /\ arg = <<0>>
  /\ result.tag = "Some"
  /\ value(result.val[1], <<0, 0>>) # value(csl, <<0, 0>>)
====
